---- MODULE Spec2Model ----
(***************************************************************************)
(* Model of the llm-proxier request pipeline (src/llm_proxier/proxy.py and *)
(* its older copy src/llm_proxy/proxy.py): verify_api_key, proxy_openai,   *)
(* the stream_wrapper generator with its cleanup, and log_interaction;     *)
(* and of the paging of the admin dashboard (src/llm_proxy/admin.py).      *)
(*                                                                         *)
(* Each request is a small process.  Its position pc[r] is the await the   *)
(* coroutine is suspended at:                                              *)
(*   start    - request received, dependency verify_api_key not yet run    *)
(*   handler  - authenticated, proxy_openai about to run                   *)
(*   sending  - client built, awaiting client.send(req, stream=True)       *)
(*   reading  - stream_wrapper awaiting the next chunk of r.aiter_bytes()  *)
(*   yielded  - stream_wrapper suspended at `yield chunk`; the response    *)
(*              object is writing the chunk to the client                  *)
(*   finally_r- cleanup, awaiting r.aclose()                               *)
(*   finally_c- cleanup, awaiting client.aclose()                          *)
(*   logging  - cleanup, inside `async with async_session()`, awaiting     *)
(*              log_interaction (db.add, db.commit)                        *)
(*   logged   - the generator has returned, the response object has not    *)
(*              yet closed the client-facing stream                        *)
(*   rejected, failed, done - terminal                                     *)
(*   crashed  - terminal: json.loads raised in proxy_openai                *)
(*   absent   - the request never arrives                                  *)
(***************************************************************************)
EXTENDS Integers, Sequences, FiniteSets, TLC

VARIABLES pc, auth, issued, status, rOpen, clientOpen, upstream,
          full_response, delivered, exit, fault, clientStatus, clientEnd,
          store, nextId,
          inbound, settings, env, req, request_json, content_type, media_type,
          page_state, pending, running, query_page, query_offset

\* What a run is given and never changes: the inbound requests (Authorization
\* header, subpath, body), the configuration, and what the upstream side can
\* do (status codes, content types, chunks and body length).
config == <<inbound, settings, env>>

\* What proxy_openai builds before the send: the upstream request and the
\* parsed body.
built == <<req, request_json>>

\* The content type of the upstream response and the media type handed to the
\* StreamingResponse.
echoed == <<content_type, media_type>>

\* The admin dashboard of one browser session: the page number in the
\* gr.State page_state, the number of update_table calls chained to a
\* Previous or Next click and not yet started, the page of each update_table
\* call that awaits its query, and the page and offset of the last query.
admin == <<page_state, pending, running, query_page, query_offset>>

vars == <<pc, auth, issued, status, rOpen, clientOpen, upstream,
          full_response, delivered, exit, fault, clientStatus, clientEnd,
          store, nextId, config, built, echoed, admin>>

(***************************************************************************)
(* Bounds.                                                                 *)
(***************************************************************************)
\* Longest upstream body, in chunks.
MaxChunks == 3
\* Longest Authorization header, in tokens.
MaxHdrLen == 3
\* Longest inbound body, in tokens.
MaxBodyLen == 3
\* Longest upstream body, in chunks, when two requests run concurrently.
ConcChunks == 2
\* Highest page the Next button is pressed to.
MaxPage == 5
\* Most update_table calls of the dashboard chained or awaiting their query.
MaxCalls == 2

\* The request slots, and the slots that receive a request when requests are
\* studied one at a time.
Requests == {"r1", "r2"}
Single == {"r1"}

(***************************************************************************)
(* Program constants.                                                      *)
(***************************************************************************)
HTTP_STATUS_BAD_REQUEST == 400
HTTP_401_UNAUTHORIZED == 401

\* Status codes the upstream answers with (both sides of the 400 boundary).
StatusCodes == {200, 399, 400, 500}

\* The status the client gets when an exception leaves the handler.
INTERNAL_ERROR == 500

\* PAGE_SIZE of the admin dashboard.
PAGE_SIZE == 10

\* timeout=60.0 of build_request.
UPSTREAM_TIMEOUT == 60

\* request.method of a route declared with router.post.
METHOD == "POST"

(***************************************************************************)
(* Bytes and text.  A chunk is a sequence of bytes; the byte alphabet has  *)
(* an ASCII byte 'a' (0x61), the lead byte 0xC3 of a two-byte sequence and *)
(* the continuation byte 0xA9: 0xC3 0xA9 is U+00E9, and either byte alone  *)
(* is malformed UTF-8.                                                     *)
(***************************************************************************)
Bytes == {97, 195, 169}
Chunks == {<<b>> : b \in Bytes}

REPLACEMENT == 65533

IsContinuation(b) == b >= 128 /\ b <= 191
IsLead2(b) == b >= 194 /\ b <= 223

\* b"".join(chunks)
RECURSIVE Join(_)
Join(chunks) ==
    IF chunks = <<>> THEN <<>> ELSE Head(chunks) \o Join(Tail(chunks))

\* bytes.decode("utf-8", errors="replace"), for one- and two-byte forms:
\* every maximal malformed subpart becomes U+FFFD.
RECURSIVE Decode(_)
Decode(bs) ==
    IF bs = <<>> THEN <<>>
    ELSE IF bs[1] < 128 THEN <<bs[1]>> \o Decode(Tail(bs))
    ELSE IF IsLead2(bs[1]) /\ Len(bs) >= 2 /\ IsContinuation(bs[2])
         THEN <<(bs[1] - 192) * 64 + (bs[2] - 128)>> \o Decode(Tail(Tail(bs)))
    ELSE <<REPLACEMENT>> \o Decode(Tail(bs))

\* str.encode("utf-8"): what a reader of the stored text gets back as bytes.
RECURSIVE Encode(_)
Encode(text) ==
    IF text = <<>> THEN <<>>
    ELSE LET c == text[1]
         IN (IF c < 128 THEN <<c>>
             ELSE IF c < 2048 THEN <<192 + (c \div 64), 128 + (c % 64)>>
             ELSE <<224 + (c \div 4096), 128 + ((c \div 64) % 64), 128 + (c % 64)>>)
            \o Encode(Tail(text))

\* Well-formed UTF-8 (one- and two-byte forms).
RECURSIVE WellFormed(_)
WellFormed(bs) ==
    IF bs = <<>> THEN TRUE
    ELSE IF bs[1] < 128 THEN WellFormed(Tail(bs))
    ELSE IF IsLead2(bs[1]) /\ Len(bs) >= 2 /\ IsContinuation(bs[2])
         THEN WellFormed(Tail(Tail(bs)))
    ELSE FALSE

IsPrefix(s, t) == Len(s) <= Len(t) /\ SubSeq(t, 1, Len(s)) = s

(***************************************************************************)
(* verify_api_key.  A header is None (no Authorization header, written as *)
(* a one-element sequence holding no token) or a sequence of tokens; " "   *)
(* is the space, the other tokens are space-free words.                    *)
(***************************************************************************)
None == <<"<absent>">>
Tokens == {"Bearer", "bearer", "BEARER", "Basic", " ", "key", "bad"}
PROXY_API_KEY == <<"key">>

SeqsUpTo(S, n) == UNION {[1..k -> S] : k \in 0..n}
AuthHeaders == {None} \cup SeqsUpTo(Tokens, MaxHdrLen)

Lower(tok) ==
    IF tok \in {"Bearer", "BEARER"} THEN "bearer"
    ELSE IF tok = "Basic" THEN "basic" ELSE tok

\* Index of the first space, 0 when there is none.
FirstSpace(h) ==
    IF \E i \in 1..Len(h) : h[i] = " "
    THEN CHOOSE i \in 1..Len(h) : h[i] = " " /\ \A j \in 1..(i - 1) : h[j] # " "
    ELSE 0

\* auth_header.partition(" "): the scheme and the parameter.
Scheme(h) == IF FirstSpace(h) = 0 THEN h ELSE SubSeq(h, 1, FirstSpace(h) - 1)
Param(h) == IF FirstSpace(h) = 0 THEN <<>> ELSE SubSeq(h, FirstSpace(h) + 1, Len(h))

\* Variant: the scheme is compared as written.
VerifyCaseSensitive(h) ==
    IF h = None \/ h = <<>> THEN "Missing Authorization Header"
    ELSE IF Scheme(h) # <<"Bearer">> THEN "Invalid Authorization Scheme"
    ELSE IF Param(h) # PROXY_API_KEY THEN "Invalid API Key"
    ELSE "ok"

\* The detail of the HTTPException raised, or "ok".
Verify(h) ==
    IF h = None \/ h = <<>> THEN "Missing Authorization Header"
    ELSE IF [i \in 1..Len(Scheme(h)) |-> Lower(Scheme(h)[i])] # <<"bearer">>
         THEN "Invalid Authorization Scheme"
    ELSE IF Param(h) # PROXY_API_KEY THEN "Invalid API Key"
    ELSE "ok"

(***************************************************************************)
(* The inbound body and json.loads.  A body is a sequence of byte tokens:  *)
(* "[", "]", the digit "1", the space, and "FF", a byte that is not valid  *)
(* UTF-8.  The JSON texts over these tokens are numbers (runs of digits)   *)
(* and lists of at most one element, with optional blanks around tokens.   *)
(***************************************************************************)
JsonTokens == {"[", "]", "1", " ", "FF"}
Bodies == SeqsUpTo(JsonTokens, MaxBodyLen)

UnicodeDecodeError == <<"UnicodeDecodeError">>

\* The first position from i on that holds no blank (Len(b) + 1 if none).
SkipWs(b, i) ==
    IF \E j \in i..Len(b) : b[j] # " "
    THEN CHOOSE j \in i..Len(b) : b[j] # " " /\ \A k \in i..(j - 1) : b[k] = " "
    ELSE Len(b) + 1

\* The first position from i on that holds no digit.
SkipDigits(b, i) ==
    IF \E j \in i..Len(b) : b[j] # "1"
    THEN CHOOSE j \in i..Len(b) : b[j] # "1" /\ \A k \in i..(j - 1) : b[k] = "1"
    ELSE Len(b) + 1

\* The position after the JSON value that starts at i, or 0 if there is none.
RECURSIVE ValueEnd(_, _)
ValueEnd(b, i) ==
    IF i > Len(b) THEN 0
    ELSE IF b[i] = "1" THEN SkipDigits(b, i)
    ELSE IF b[i] = "["
         THEN LET k == SkipWs(b, i + 1)
              IN IF k > Len(b) THEN 0
                 ELSE IF b[k] = "]" THEN k + 1
                 ELSE LET e == ValueEnd(b, k)
                          m == IF e = 0 THEN 0 ELSE SkipWs(b, e)
                      IN IF m # 0 /\ m <= Len(b) /\ b[m] = "]" THEN m + 1 ELSE 0
    ELSE 0

IsJson(b) ==
    LET e == ValueEnd(b, SkipWs(b, 1))
    IN e # 0 /\ SkipWs(b, e) > Len(b)

\* json.loads(body_bytes): the bytes are decoded first (UnicodeDecodeError,
\* which is no JSONDecodeError), then parsed; a parsed value is written as
\* its tokens without the blanks.  The except clause of proxy_openai turns
\* JSONDecodeError into None.
Loads(b) ==
    IF \E i \in 1..Len(b) : b[i] = "FF" THEN UnicodeDecodeError
    ELSE IF IsJson(b) THEN SelectSeq(b, LAMBDA t : t # " ")
    ELSE None

\* json.dumps of a parsed value: no blanks.
Dumps(v) == v

\* Variant: the upstream body is re-encoded from the parsed JSON.
UpstreamContentReencoded(body_bytes, parsed) ==
    IF parsed = None THEN body_bytes ELSE Dumps(parsed)

\* content=body_bytes of build_request.
UpstreamContent(body_bytes, parsed) == body_bytes

(***************************************************************************)
(* The upstream URL.  A URL is a sequence of tokens: the origin, "/", and  *)
(* path segments.                                                          *)
(***************************************************************************)
ORIGIN == "https://api.example.com"
BaseUrls == {<<ORIGIN>>, <<ORIGIN, "/">>, <<ORIGIN, "/", "v1">>,
             <<ORIGIN, "/", "v1", "/">>, <<ORIGIN, "/", "v1", "/", "/">>,
             <<ORIGIN, "/", "api">>}
Subpaths == {<<"chat", "/", "completions">>, <<"chat">>, <<>>,
             <<"v1", "/", "chat">>, <<"v1">>}

\* base.rstrip("/")
RECURSIVE RStrip(_)
RStrip(u) ==
    IF u # <<>> /\ u[Len(u)] = "/" THEN RStrip(SubSeq(u, 1, Len(u) - 1)) ELSE u

\* base.endswith("/v1")
EndsWithV1(u) == Len(u) >= 2 /\ u[Len(u) - 1] = "/" /\ u[Len(u)] = "v1"

\* Variant: "/v1" is appended whatever the base ends with.
UpstreamUrlAlwaysV1(base_url, path) ==
    RStrip(base_url) \o <<"/", "v1", "/">> \o path

\* upstream_url of proxy_openai.
UpstreamUrl(base_url, path) ==
    LET base == RStrip(base_url)
    IN IF EndsWithV1(base) THEN base \o <<"/">> \o path
       ELSE base \o <<"/", "v1", "/">> \o path

(***************************************************************************)
(* The upstream headers.                                                   *)
(***************************************************************************)
UpstreamKeys == {None, <<>>, <<"upkey">>}
Configs == [UPSTREAM_BASE_URL : BaseUrls, UPSTREAM_API_KEY : UpstreamKeys]

\* headers of proxy_openai, a set of (name, value) pairs.
UpstreamHeaders(key) ==
    {<<"Content-Type", <<"application/json">>>>}
    \cup (IF key # None /\ key # <<>>
          THEN {<<"Authorization", <<"Bearer", " ">> \o key>>} ELSE {})

\* Content types the upstream answers with (None: no Content-Type header).
ContentTypes == {None, <<"text/event-stream">>}

(***************************************************************************)
(* The Log Store: the request_logs table, in insertion order.              *)
(***************************************************************************)
\* The request handed to client.build_request.
NoRequest == [method |-> "", url |-> <<>>, headers |-> {}, content |-> <<>>,
              timeout |-> 0]

\* Variant: the client's Authorization header is passed on.
BuildHeadersPassThrough(r) ==
    {<<"Content-Type", <<"application/json">>>>,
     <<"Authorization", inbound[r].auth_header>>}

\* headers of proxy_openai for the current settings.
BuildHeaders(r) == UpstreamHeaders(settings.UPSTREAM_API_KEY)

\* req = client.build_request(...)
BuildRequest(r, parsed) ==
    [method |-> METHOD,
     url |-> UpstreamUrl(settings.UPSTREAM_BASE_URL, inbound[r].path),
     headers |-> BuildHeaders(r),
     content |-> UpstreamContent(inbound[r].body, parsed),
     timeout |-> UPSTREAM_TIMEOUT]

\* Inputs of the specifications.
SampleHeaders == {None, <<"Basic", " ", "key">>, <<"Bearer", " ", "bad">>,
                  <<"Bearer", " ", "key">>}
DefaultPath == <<"chat", "/", "completions">>
DefaultBody == <<"[", "1", "]">>
SampleBodies == {DefaultBody, <<"]">>, <<"FF">>}
DefaultInbound ==
    [auth_header |-> <<"Bearer", " ", "key">>, path |-> DefaultPath,
     body |-> DefaultBody]
SampleInbounds ==
    [auth_header : SampleHeaders, path : {DefaultPath}, body : SampleBodies]
DefaultSettings ==
    [UPSTREAM_BASE_URL |-> <<ORIGIN, "/", "v1">>, UPSTREAM_API_KEY |-> <<"upkey">>]
FullEnv ==
    [maxChunks |-> MaxChunks, codes |-> StatusCodes, types |-> ContentTypes,
     chunks |-> [r \in Requests |-> Chunks]]

RecordsOf(r) == {i \in 1..Len(store) : store[i].req = r}

\* Variant: each chunk is decoded on its own.
RECURSIVE ResponseTextPerChunk(_)
ResponseTextPerChunk(chunks) ==
    IF chunks = <<>> THEN <<>>
    ELSE Decode(Head(chunks)) \o ResponseTextPerChunk(Tail(chunks))

\* response_text of the cleanup.
ResponseText(chunks) == Decode(Join(chunks))

\* Variant: 400 itself does not count as a failure.
FailFlagAbove(code) == IF code > HTTP_STATUS_BAD_REQUEST THEN 1 ELSE 0

\* fail_flag of the cleanup.
FailFlag(code) == IF code >= HTTP_STATUS_BAD_REQUEST THEN 1 ELSE 0

\* The LogData the cleanup builds.
LogData(r) ==
    [req |-> r,
     method |-> METHOD,
     path |-> inbound[r].path,
     request_body |-> request_json[r],
     response_body |-> ResponseText(full_response[r]),
     status_code |-> status[r],
     fail |-> FailFlag(status[r])]

Terminal(r) == pc[r] \in {"rejected", "crashed", "failed", "done"}

TypeOK ==
    /\ pc \in [Requests -> {"absent", "start", "handler", "sending", "reading",
                            "yielded", "finally_r", "finally_c", "logging",
                            "logged", "rejected", "crashed", "failed", "done"}]
    /\ auth \in [Requests -> {"none", "ok", "Missing Authorization Header",
                              "Invalid Authorization Scheme", "Invalid API Key"}]
    /\ issued \in [Requests -> BOOLEAN]
    /\ status \in [Requests -> StatusCodes \cup {0}]
    /\ rOpen \in [Requests -> {"none", "open", "closed"}]
    /\ clientOpen \in [Requests -> {"none", "open", "closed"}]
    /\ \A r \in Requests :
          /\ upstream[r] \in SeqsUpTo(Chunks, MaxChunks)
          /\ full_response[r] \in SeqsUpTo(Chunks, MaxChunks)
          /\ delivered[r] \in SeqsUpTo(Chunks, MaxChunks)
    /\ exit \in [Requests -> {"none", "eof", "error", "disconnect"}]
    /\ fault \in [Requests -> {"none", "r.aclose", "client.aclose", "log"}]
    /\ clientStatus \in [Requests ->
          StatusCodes \cup {0, HTTP_401_UNAUTHORIZED, INTERNAL_ERROR}]
    /\ clientEnd \in [Requests -> {"none", "complete", "aborted", "gone"}]
    /\ \A i \in 1..Len(store) :
          /\ store[i].id \in 1..(nextId - 1)
          /\ store[i].req \in Requests
          /\ Len(store[i].response_body) <= MaxChunks
          /\ store[i].status_code \in StatusCodes
          /\ store[i].fail \in {0, 1}
    /\ nextId = Len(store) + 1
    /\ \A r \in Requests :
          /\ inbound[r].auth_header \in AuthHeaders
          /\ inbound[r].path \in Subpaths
          /\ inbound[r].body \in Bodies
          /\ request_json[r] \in Bodies \cup {None}
          /\ req[r].content \in Bodies
          /\ content_type[r] \in ContentTypes
          /\ media_type[r] \in ContentTypes
    /\ settings \in Configs
    /\ page_state \in Int
    /\ pending \in 0..MaxCalls
    /\ running \in SeqsUpTo(1..MaxPage, MaxCalls)
    /\ query_page \in 1..MaxPage
    /\ query_offset \in 0..(MaxPage * PAGE_SIZE)
    /\ env.maxChunks \in 0..MaxChunks
    /\ env.codes \subseteq StatusCodes
    /\ env.types \subseteq ContentTypes
    /\ \A r \in Requests : env.chunks[r] \subseteq Chunks

\* No request has been handled; the slots in `arriving` have a request at
\* the door.
Fresh(arriving) ==
    /\ pc = [r \in Requests |-> IF r \in arriving THEN "start" ELSE "absent"]
    /\ auth = [r \in Requests |-> "none"]
    /\ issued = [r \in Requests |-> FALSE]
    /\ status = [r \in Requests |-> 0]
    /\ rOpen = [r \in Requests |-> "none"]
    /\ clientOpen = [r \in Requests |-> "none"]
    /\ upstream = [r \in Requests |-> <<>>]
    /\ full_response = [r \in Requests |-> <<>>]
    /\ delivered = [r \in Requests |-> <<>>]
    /\ exit = [r \in Requests |-> "none"]
    /\ fault = [r \in Requests |-> "none"]
    /\ clientStatus = [r \in Requests |-> 0]
    /\ clientEnd = [r \in Requests |-> "none"]
    /\ store = <<>>
    /\ nextId = 1
    /\ req = [r \in Requests |-> NoRequest]
    /\ request_json = [r \in Requests |-> None]
    /\ content_type = [r \in Requests |-> None]
    /\ media_type = [r \in Requests |-> None]
    /\ page_state = 1
    /\ pending = 0
    /\ running = <<>>
    /\ query_page = 1
    /\ query_offset = 0

\* What a run is given: the requests that arrive, the settings, and what the
\* upstream can answer.  None of it changes during a run.
Inputs(arriving, inbounds, configs, environment) ==
    /\ \E i \in [arriving -> inbounds] :
          inbound = [r \in Requests |-> IF r \in arriving THEN i[r] ELSE DefaultInbound]
    /\ settings \in configs
    /\ env = environment

Init ==
    /\ Fresh(Single)
    /\ Inputs(Single, SampleInbounds, {DefaultSettings}, FullEnv)

(***************************************************************************)
(* The dependency verify_api_key: raising HTTPException ends the request   *)
(* with a 401 before proxy_openai runs.                                    *)
(***************************************************************************)
verify_api_key_returns(r) ==
    /\ pc[r] = "start"
    /\ LET h == inbound[r].auth_header IN
          /\ auth' = [auth EXCEPT ![r] = Verify(h)]
          /\ pc' = [pc EXCEPT ![r] = "handler"]
    /\ UNCHANGED <<issued, status, rOpen, clientOpen, upstream, full_response,
                   delivered, exit, fault, clientStatus, clientEnd, store, nextId,
                   config, built, echoed, admin>>

verify_api_key(r) ==
    /\ pc[r] = "start"
    /\ LET h == inbound[r].auth_header IN
          /\ auth' = [auth EXCEPT ![r] = Verify(h)]
          /\ IF Verify(h) = "ok"
             THEN /\ pc' = [pc EXCEPT ![r] = "handler"]
                  /\ UNCHANGED <<clientStatus, clientEnd>>
             ELSE /\ pc' = [pc EXCEPT ![r] = "rejected"]
                  /\ clientStatus' = [clientStatus EXCEPT ![r] = HTTP_401_UNAUTHORIZED]
                  /\ clientEnd' = [clientEnd EXCEPT ![r] = "complete"]
    /\ UNCHANGED <<issued, status, rOpen, clientOpen, upstream, full_response,
                   delivered, exit, fault, store, nextId,
                   config, built, echoed, admin>>

(***************************************************************************)
(* proxy_openai up to the send: the upstream request is built on a fresh   *)
(* httpx.AsyncClient.                                                      *)
(***************************************************************************)
proxy_openai(r) ==
    /\ pc[r] = "handler"
    /\ LET parsed == Loads(inbound[r].body) IN
          IF parsed = UnicodeDecodeError
          THEN \* not caught by `except json.JSONDecodeError`
               /\ pc' = [pc EXCEPT ![r] = "crashed"]
               /\ clientStatus' = [clientStatus EXCEPT ![r] = INTERNAL_ERROR]
               /\ clientEnd' = [clientEnd EXCEPT ![r] = "complete"]
               /\ UNCHANGED <<clientOpen, built>>
          ELSE /\ request_json' = [request_json EXCEPT ![r] = parsed]
               /\ req' = [req EXCEPT ![r] = BuildRequest(r, parsed)]
               /\ clientOpen' = [clientOpen EXCEPT ![r] = "open"]
               /\ pc' = [pc EXCEPT ![r] = "sending"]
               /\ UNCHANGED <<clientStatus, clientEnd>>
    /\ UNCHANGED <<auth, issued, status, rOpen, upstream, full_response,
                   delivered, exit, fault, store, nextId, config, echoed, admin>>

\* Variant: the client-facing response always starts with 200.
SendOkEcho200(r) ==
    /\ pc[r] = "sending"
    /\ \E s \in env.codes, t \in env.types :
          /\ status' = [status EXCEPT ![r] = s]
          /\ content_type' = [content_type EXCEPT ![r] = t]
          /\ clientStatus' = [clientStatus EXCEPT ![r] = 200]
          /\ media_type' = [media_type EXCEPT ![r] = t]
    /\ issued' = [issued EXCEPT ![r] = TRUE]
    /\ rOpen' = [rOpen EXCEPT ![r] = "open"]
    /\ pc' = [pc EXCEPT ![r] = "reading"]
    /\ UNCHANGED <<auth, clientOpen, upstream, full_response, delivered, exit,
                   fault, clientEnd, store, nextId, config, built, admin>>

\* r = await client.send(req, stream=True) returns the response headers; the
\* StreamingResponse is returned and starts the client-facing response.
SendOk(r) ==
    /\ pc[r] = "sending"
    /\ \E s \in env.codes, t \in env.types :
          /\ status' = [status EXCEPT ![r] = s]
          /\ content_type' = [content_type EXCEPT ![r] = t]
          /\ clientStatus' = [clientStatus EXCEPT ![r] = s]
          /\ media_type' = [media_type EXCEPT ![r] = t]
    /\ issued' = [issued EXCEPT ![r] = TRUE]
    /\ rOpen' = [rOpen EXCEPT ![r] = "open"]
    /\ pc' = [pc EXCEPT ![r] = "reading"]
    /\ UNCHANGED <<auth, clientOpen, upstream, full_response, delivered, exit,
                   fault, clientEnd, store, nextId, config, built, admin>>

\* Variant: a failed send still writes a log record.
SendFailLogs(r) ==
    /\ pc[r] = "sending"
    /\ issued' = [issued EXCEPT ![r] = TRUE]
    /\ clientStatus' = [clientStatus EXCEPT ![r] = INTERNAL_ERROR]
    /\ clientEnd' = [clientEnd EXCEPT ![r] = "complete"]
    /\ store' = Append(store, [id |-> nextId] @@ LogData(r))
    /\ nextId' = nextId + 1
    /\ pc' = [pc EXCEPT ![r] = "failed"]
    /\ UNCHANGED <<auth, status, rOpen, clientOpen, upstream, full_response,
                   delivered, exit, fault, config, built, echoed, admin>>

\* client.send raises (connect error, timeout): the exception leaves
\* proxy_openai, nothing after line 90 runs.
SendFail(r) ==
    /\ pc[r] = "sending"
    /\ issued' = [issued EXCEPT ![r] = TRUE]
    /\ clientStatus' = [clientStatus EXCEPT ![r] = INTERNAL_ERROR]
    /\ clientEnd' = [clientEnd EXCEPT ![r] = "complete"]
    /\ pc' = [pc EXCEPT ![r] = "failed"]
    /\ UNCHANGED <<auth, status, rOpen, clientOpen, upstream, full_response,
                   delivered, exit, fault, store, nextId,
                   config, built, echoed, admin>>

(***************************************************************************)
(* stream_wrapper, the loop.                                               *)
(***************************************************************************)
\* Variant: the chunk is yielded without being appended.
UpstreamChunkNoAppend(r) ==
    /\ pc[r] = "reading"
    /\ Len(upstream[r]) < env.maxChunks
    /\ \E c \in env.chunks[r] :
          upstream' = [upstream EXCEPT ![r] = Append(@, c)]
    /\ pc' = [pc EXCEPT ![r] = "yielded"]
    /\ UNCHANGED <<auth, issued, status, rOpen, clientOpen, full_response,
                   delivered, exit, fault, clientStatus, clientEnd, store, nextId,
                   config, built, echoed, admin>>

\* The upstream delivers a chunk: it is appended, then yielded.
UpstreamChunk(r) ==
    /\ pc[r] = "reading"
    /\ Len(upstream[r]) < env.maxChunks
    /\ \E c \in env.chunks[r] :
          /\ upstream' = [upstream EXCEPT ![r] = Append(@, c)]
          /\ full_response' = [full_response EXCEPT ![r] = Append(@, c)]
    /\ pc' = [pc EXCEPT ![r] = "yielded"]
    /\ UNCHANGED <<auth, issued, status, rOpen, clientOpen, delivered, exit,
                   fault, clientStatus, clientEnd, store, nextId,
                   config, built, echoed, admin>>

\* Variant: the client is sent the first chunk again, not the one yielded.
DeliverFirst(r) ==
    /\ pc[r] = "yielded"
    /\ delivered' = [delivered EXCEPT ![r] = Append(@, upstream[r][1])]
    /\ pc' = [pc EXCEPT ![r] = "reading"]
    /\ UNCHANGED <<auth, issued, status, rOpen, clientOpen, upstream,
                   full_response, exit, fault, clientStatus, clientEnd, store, nextId,
                   config, built, echoed, admin>>

\* The response object writes the yielded chunk to the client and asks the
\* generator for the next one.
Deliver(r) ==
    /\ pc[r] = "yielded"
    /\ delivered' = [delivered EXCEPT ![r] = Append(@, upstream[r][Len(upstream[r])])]
    /\ pc' = [pc EXCEPT ![r] = "reading"]
    /\ UNCHANGED <<auth, issued, status, rOpen, clientOpen, upstream,
                   full_response, exit, fault, clientStatus, clientEnd, store, nextId,
                   config, built, echoed, admin>>

\* The upstream signals end-of-body: the loop ends, the cleanup starts.
UpstreamEnd(r) ==
    /\ pc[r] = "reading"
    /\ exit' = [exit EXCEPT ![r] = "eof"]
    /\ pc' = [pc EXCEPT ![r] = "finally_r"]
    /\ UNCHANGED <<auth, issued, status, rOpen, clientOpen, upstream,
                   full_response, delivered, fault, clientStatus, clientEnd,
                   store, nextId,
                   config, built, echoed, admin>>

UpstreamErrorNoFinally(r) ==
    /\ pc[r] = "reading"
    /\ exit' = [exit EXCEPT ![r] = "error"]
    /\ clientEnd' = [clientEnd EXCEPT ![r] = "aborted"]
    /\ pc' = [pc EXCEPT ![r] = "done"]
    /\ UNCHANGED <<auth, issued, status, rOpen, clientOpen, upstream,
                   full_response, delivered, fault, clientStatus, store, nextId,
                   config, built, echoed, admin>>

\* r.aiter_bytes() raises mid-stream: the exception enters the cleanup.
UpstreamError(r) ==
    /\ pc[r] = "reading"
    /\ exit' = [exit EXCEPT ![r] = "error"]
    /\ pc' = [pc EXCEPT ![r] = "finally_r"]
    /\ UNCHANGED <<auth, issued, status, rOpen, clientOpen, upstream,
                   full_response, delivered, fault, clientStatus, clientEnd,
                   store, nextId,
                   config, built, echoed, admin>>

\* Variant: the generator keeps consuming the upstream after the client left.
ClientDisconnectDrain(r) ==
    /\ pc[r] \in {"reading", "yielded"}
    /\ exit[r] = "none"
    /\ exit' = [exit EXCEPT ![r] = "disconnect"]
    /\ clientEnd' = [clientEnd EXCEPT ![r] = "gone"]
    /\ pc' = [pc EXCEPT ![r] = "reading"]
    /\ UNCHANGED <<auth, issued, status, rOpen, clientOpen, upstream,
                   full_response, delivered, fault, clientStatus, store, nextId,
                   config, built, echoed, admin>>

\* Variant: the generator is dropped without running its cleanup.
ClientDisconnectAbandon(r) ==
    /\ pc[r] \in {"reading", "yielded"}
    /\ exit' = [exit EXCEPT ![r] = "disconnect"]
    /\ clientEnd' = [clientEnd EXCEPT ![r] = "gone"]
    /\ pc' = [pc EXCEPT ![r] = "done"]
    /\ UNCHANGED <<auth, issued, status, rOpen, clientOpen, upstream,
                   full_response, delivered, fault, clientStatus, store, nextId,
                   config, built, echoed, admin>>

\* The client goes away.  The response object stops iterating: the generator
\* is cancelled at its await or closed at its yield, neither of which resumes
\* the loop; control passes to the finally block.
ClientDisconnect(r) ==
    /\ pc[r] \in {"reading", "yielded"}
    /\ exit' = [exit EXCEPT ![r] = "disconnect"]
    /\ clientEnd' = [clientEnd EXCEPT ![r] = "gone"]
    /\ pc' = [pc EXCEPT ![r] = "finally_r"]
    /\ UNCHANGED <<auth, issued, status, rOpen, clientOpen, upstream,
                   full_response, delivered, fault, clientStatus, store, nextId,
                   config, built, echoed, admin>>

(***************************************************************************)
(* stream_wrapper, the finally block.  An await that raises leaves the     *)
(* block: nothing after it runs, and the response object never closes the  *)
(* client-facing stream properly.                                          *)
(***************************************************************************)
\* What the client sees when the generator ends by raising.
Broken(r) == IF exit[r] = "disconnect" THEN "gone" ELSE "aborted"

Raise(r, what) ==
    /\ fault' = [fault EXCEPT ![r] = what]
    /\ clientEnd' = [clientEnd EXCEPT ![r] = Broken(r)]
    /\ pc' = [pc EXCEPT ![r] = "done"]

\* await r.aclose()
CloseResponse(r) ==
    /\ pc[r] = "finally_r"
    /\ rOpen' = [rOpen EXCEPT ![r] = "closed"]
    /\ pc' = [pc EXCEPT ![r] = "finally_c"]
    /\ UNCHANGED <<auth, issued, status, clientOpen, upstream, full_response,
                   delivered, exit, fault, clientStatus, clientEnd, store, nextId,
                   config, built, echoed, admin>>

\* Variant: an exception of r.aclose() is swallowed and the cleanup goes on.
CloseResponseFailSwallowed(r) ==
    /\ pc[r] = "finally_r"
    /\ fault' = [fault EXCEPT ![r] = "r.aclose"]
    /\ pc' = [pc EXCEPT ![r] = "finally_c"]
    /\ UNCHANGED <<auth, issued, status, rOpen, clientOpen, upstream,
                   full_response, delivered, exit, clientStatus, clientEnd, store,
                   nextId, config, built, echoed, admin>>

\* r.aclose() raises: the exception leaves the generator.
CloseResponseFail(r) ==
    /\ pc[r] = "finally_r"
    /\ Raise(r, "r.aclose")
    /\ UNCHANGED <<auth, issued, status, rOpen, clientOpen, upstream,
                   full_response, delivered, exit, clientStatus, store, nextId,
                   config, built, echoed, admin>>

\* Variant: one client is shared, closing it closes it for every request.
CloseClientShared(r) ==
    /\ pc[r] = "finally_c"
    /\ clientOpen' = [q \in Requests |->
                         IF clientOpen[q] = "open" THEN "closed" ELSE clientOpen[q]]
    /\ pc' = [pc EXCEPT ![r] = "logging"]
    /\ UNCHANGED <<auth, issued, status, rOpen, upstream, full_response,
                   delivered, exit, fault, clientStatus, clientEnd, store, nextId,
                   config, built, echoed, admin>>

\* await client.aclose(); then response_text and fail_flag are computed and
\* the session is opened.
CloseClient(r) ==
    /\ pc[r] = "finally_c"
    /\ clientOpen' = [clientOpen EXCEPT ![r] = "closed"]
    /\ pc' = [pc EXCEPT ![r] = "logging"]
    /\ UNCHANGED <<auth, issued, status, rOpen, upstream, full_response,
                   delivered, exit, fault, clientStatus, clientEnd, store, nextId,
                   config, built, echoed, admin>>

CloseClientFail(r) ==
    /\ pc[r] = "finally_c"
    /\ Raise(r, "client.aclose")
    /\ UNCHANGED <<auth, issued, status, rOpen, clientOpen, upstream,
                   full_response, delivered, exit, clientStatus, store, nextId,
                   config, built, echoed, admin>>

\* Variant: the entry is added twice.
log_interaction_twice(r) ==
    /\ pc[r] = "logging"
    /\ store' = store \o <<[id |-> nextId] @@ LogData(r),
                           [id |-> nextId + 1] @@ LogData(r)>>
    /\ nextId' = nextId + 2
    /\ pc' = [pc EXCEPT ![r] = "logged"]
    /\ UNCHANGED <<auth, issued, status, rOpen, clientOpen, upstream,
                   full_response, delivered, exit, fault, clientStatus, clientEnd,
                   config, built, echoed, admin>>

\* Variant: the entry is added and never committed.
log_interaction_nocommit(r) ==
    /\ pc[r] = "logging"
    /\ pc' = [pc EXCEPT ![r] = "logged"]
    /\ UNCHANGED <<auth, issued, status, rOpen, clientOpen, upstream,
                   full_response, delivered, exit, fault, clientStatus,
                   clientEnd, store, nextId,
                   config, built, echoed, admin>>

\* Variant: the write replaces the rows of the table.
log_interaction_replace(r) ==
    /\ pc[r] = "logging"
    /\ store' = <<[id |-> nextId] @@ LogData(r)>>
    /\ nextId' = nextId + 1
    /\ pc' = [pc EXCEPT ![r] = "logged"]
    /\ UNCHANGED <<auth, issued, status, rOpen, clientOpen, upstream,
                   full_response, delivered, exit, fault, clientStatus, clientEnd,
                   config, built, echoed, admin>>

\* The row of request_logs made from a LogData: one column per field, and
\* the autoincrement id the table assigns.
RequestLog(data) == [id |-> nextId] @@ data

\* log_interaction: db.add(RequestLog(**data)); await db.commit().
log_interaction(r) ==
    /\ pc[r] = "logging"
    /\ store' = Append(store, RequestLog(LogData(r)))
    /\ nextId' = nextId + 1
    /\ pc' = [pc EXCEPT ![r] = "logged"]
    /\ UNCHANGED <<auth, issued, status, rOpen, clientOpen, upstream,
                   full_response, delivered, exit, fault, clientStatus, clientEnd,
                   config, built, echoed, admin>>

\* The session, the add or the commit raises: nothing is persisted.
LogFail(r) ==
    /\ pc[r] = "logging"
    /\ Raise(r, "log")
    /\ UNCHANGED <<auth, issued, status, rOpen, clientOpen, upstream,
                   full_response, delivered, exit, clientStatus, store, nextId,
                   config, built, echoed, admin>>

\* The generator has finished.  After a normal end the response object sends
\* the final empty body (more_body = False); after an upstream error the
\* pending exception is re-raised and the stream is cut.
Finish(r) ==
    /\ pc[r] = "logged"
    /\ clientEnd' = [clientEnd EXCEPT ![r] =
                        IF exit[r] = "eof" THEN "complete" ELSE Broken(r)]
    /\ pc' = [pc EXCEPT ![r] = "done"]
    /\ UNCHANGED <<auth, issued, status, rOpen, clientOpen, upstream,
                   full_response, delivered, exit, fault, clientStatus, store, nextId,
                   config, built, echoed, admin>>

Step(r) ==
    \/ verify_api_key(r)
    \/ proxy_openai(r)
    \/ SendOk(r)
    \/ SendFail(r)
    \/ UpstreamChunk(r)
    \/ Deliver(r)
    \/ UpstreamEnd(r)
    \/ UpstreamError(r)
    \/ ClientDisconnect(r)
    \/ CloseResponse(r)
    \/ CloseResponseFail(r)
    \/ CloseClient(r)
    \/ CloseClientFail(r)
    \/ log_interaction(r)
    \/ LogFail(r)
    \/ Finish(r)

Next == \E r \in Requests : Step(r)

Spec == Init /\ [][Next]_vars

(***************************************************************************)
(* The authenticator alone, on every Authorization header of the model.    *)
(***************************************************************************)
AllHeaderInbounds ==
    [auth_header : AuthHeaders, path : {DefaultPath}, body : {DefaultBody}]

AuthInit ==
    /\ Fresh(Single)
    /\ Inputs(Single, AllHeaderInbounds, {DefaultSettings}, FullEnv)

AuthNext == \E r \in Requests : verify_api_key(r)

AuthSpec == AuthInit /\ [][AuthNext]_vars

(***************************************************************************)
(* One accepted request from the handler to its log record, on every body  *)
(* of the model and on every base URL, upstream key and subpath; the       *)
(* upstream answers 200 with an empty body.                                *)
(***************************************************************************)
Accepted == <<"Bearer", " ", "key">>
BodyInbounds == [auth_header : {Accepted}, path : {DefaultPath}, body : Bodies]
PathInbounds == [auth_header : {Accepted}, path : Subpaths, body : {DefaultBody}]
EmptyEnv ==
    [maxChunks |-> 0, codes |-> {200}, types |-> {<<"text/event-stream">>},
     chunks |-> [r \in Requests |-> {}]]

ForwardInit ==
    /\ Fresh(Single)
    /\ \/ Inputs(Single, BodyInbounds, {DefaultSettings}, EmptyEnv)
       \/ Inputs(Single, PathInbounds, Configs, EmptyEnv)

ForwardNext ==
    \E r \in Requests :
        \/ verify_api_key(r)
        \/ proxy_openai(r)
        \/ SendOk(r)
        \/ UpstreamEnd(r)
        \/ CloseResponse(r)
        \/ CloseClient(r)
        \/ log_interaction(r)
        \/ Finish(r)

ForwardSpec == ForwardInit /\ [][ForwardNext]_vars

(***************************************************************************)
(* Two requests under one configuration, each with its own Authorization   *)
(* header, up to the built upstream request.                               *)
(***************************************************************************)
CredentialInbounds ==
    [auth_header : {<<"Bearer", " ", "key">>, <<"bearer", " ", "key">>,
                    <<"BEARER", " ", "key">>, <<"Basic", " ", "key">>, None},
     path : {DefaultPath}, body : {DefaultBody}]
KeyConfigs ==
    [UPSTREAM_BASE_URL : {DefaultSettings.UPSTREAM_BASE_URL},
     UPSTREAM_API_KEY : UpstreamKeys]

HeaderInit ==
    /\ Fresh(Requests)
    /\ Inputs(Requests, CredentialInbounds, KeyConfigs, EmptyEnv)

HeaderNext == \E r \in Requests : verify_api_key(r) \/ proxy_openai(r)

HeaderSpec == HeaderInit /\ [][HeaderNext]_vars

(***************************************************************************)
(* Two accepted requests in flight at once, every step of each interleaved *)
(* with every step of the other.  The two upstream responses are made of   *)
(* different bytes, so that a chunk tells which response it came from.     *)
(***************************************************************************)
ConcEnv ==
    [maxChunks |-> ConcChunks, codes |-> {200},
     types |-> {<<"text/event-stream">>},
     chunks |-> [r \in Requests |->
                   IF r = "r1" THEN {<<97>>} ELSE {<<195>>, <<169>>}]]

ConcInit ==
    /\ Fresh(Requests)
    /\ Inputs(Requests, {DefaultInbound}, {DefaultSettings}, ConcEnv)

ConcSpec == ConcInit /\ [][Next]_vars

(***************************************************************************)
(* The admin dashboard (llm_proxy/admin.py), one browser session.  The     *)
(* initial state is the dashboard after demo.load has shown page 1.  A     *)
(* click on Previous or Next runs go_prev or go_next and chains an         *)
(* update_table; a click on Refresh runs update_table.  update_table reads *)
(* page_state when it starts, awaits the query, and writes page_state when *)
(* it returns, so calls may overlap.                                       *)
(***************************************************************************)
Max(a, b) == IF a >= b THEN a ELSE b

\* offset of fetch_logs.
fetch_logs_offset(page) == (page - 1) * PAGE_SIZE

Remove(seq, k) == SubSeq(seq, 1, k - 1) \o SubSeq(seq, k + 1, Len(seq))

AdminRoom == pending + Len(running) < MaxCalls

\* Variant: Previous is not clamped at page 1.
go_prev_unclamped ==
    /\ AdminRoom
    /\ page_state' = page_state - 1
    /\ pending' = pending + 1
    /\ UNCHANGED <<pc, auth, issued, status, rOpen, clientOpen, upstream,
                   full_response, delivered, exit, fault, clientStatus, clientEnd,
                   store, nextId, config, built, echoed,
                   running, query_page, query_offset>>

\* prev_btn.click(go_prev, ...).then(update_table, ...)
go_prev ==
    /\ AdminRoom
    /\ page_state' = Max(1, page_state - 1)
    /\ pending' = pending + 1
    /\ UNCHANGED <<pc, auth, issued, status, rOpen, clientOpen, upstream,
                   full_response, delivered, exit, fault, clientStatus, clientEnd,
                   store, nextId, config, built, echoed,
                   running, query_page, query_offset>>

\* next_btn.click(go_next, ...).then(update_table, ...)
go_next ==
    /\ AdminRoom
    /\ page_state < MaxPage
    /\ page_state' = page_state + 1
    /\ pending' = pending + 1
    /\ UNCHANGED <<pc, auth, issued, status, rOpen, clientOpen, upstream,
                   full_response, delivered, exit, fault, clientStatus, clientEnd,
                   store, nextId, config, built, echoed,
                   running, query_page, query_offset>>

\* update_table up to the query of fetch_logs: page = max(page, 1), then
\* fetch_data(page) queries with offset (page - 1) * PAGE_SIZE.
update_table_starts ==
    LET page == Max(page_state, 1)
    IN /\ running' = Append(running, page)
       /\ query_page' = page
       /\ query_offset' = fetch_logs_offset(page)

\* The update_table chained to a Previous or Next click starts.
then_update_table ==
    /\ pending > 0
    /\ pending' = pending - 1
    /\ update_table_starts
    /\ UNCHANGED <<pc, auth, issued, status, rOpen, clientOpen, upstream,
                   full_response, delivered, exit, fault, clientStatus, clientEnd,
                   store, nextId, config, built, echoed, page_state>>

\* refresh_btn.click(update_table, ...)
refresh_click ==
    /\ AdminRoom
    /\ update_table_starts
    /\ UNCHANGED <<pc, auth, issued, status, rOpen, clientOpen, upstream,
                   full_response, delivered, exit, fault, clientStatus, clientEnd,
                   store, nextId, config, built, echoed, page_state, pending>>

\* An update_table call returns: current_page, the page it queried, is
\* written to page_state.
update_table_returns ==
    /\ \E k \in 1..Len(running) :
          /\ page_state' = running[k]
          /\ running' = Remove(running, k)
    /\ UNCHANGED <<pc, auth, issued, status, rOpen, clientOpen, upstream,
                   full_response, delivered, exit, fault, clientStatus, clientEnd,
                   store, nextId, config, built, echoed,
                   pending, query_page, query_offset>>

AdminInit ==
    /\ Fresh({})
    /\ Inputs({}, {DefaultInbound}, {DefaultSettings}, EmptyEnv)

AdminNext ==
    \/ go_prev
    \/ go_next
    \/ then_update_table
    \/ refresh_click
    \/ update_table_returns

AdminSpec == AdminInit /\ [][AdminNext]_vars

\* The event loop runs every ready coroutine; the upstream read is bounded by
\* the 60 s timeout; a write to the client completes or the client is gone.
FairSpec == Spec /\ \A r \in Requests : WF_vars(Step(r))

(***************************************************************************)
(* Properties.                                                             *)
(***************************************************************************)
Rejections == {"Missing Authorization Header", "Invalid Authorization Scheme",
               "Invalid API Key"}

NumRecords(r) == Cardinality(RecordsOf(r))

\* The record of r, when it has exactly one.
RecordOf(r) == store[CHOOSE i \in RecordsOf(r) : TRUE]

InLoop(r) == pc[r] \in {"reading", "yielded"}

\* C1: a request that verify_api_key rejects never issues an upstream
\* request, never creates an upstream client and never gets a log record: it
\* is answered 401 and stays rejected.
C1_RejectedNeverForwarded ==
    \A r \in Requests :
        auth[r] \in Rejections =>
            /\ pc[r] = "rejected"
            /\ clientStatus[r] = HTTP_401_UNAUTHORIZED
            /\ ~issued[r]
            /\ clientOpen[r] = "none"
            /\ RecordsOf(r) = {}

C1_Witness ==
    \E r \in Requests : pc[r] = "rejected" /\ auth[r] = "Invalid API Key"

C3_AtMostOneRecord ==
    \A r \in Requests : NumRecords(r) <= 1

C3_Witness ==
    \E r \in Requests :
        pc[r] = "done" /\ NumRecords(r) = 1 /\ exit[r] = "error"

\* C4 as claimed: after a stream relayed to completion the stored
\* response_body is the very bytes delivered to the client (a reader of the
\* record gets the delivered bytes back).
C4_Original ==
    \A i \in 1..Len(store) :
        exit[store[i].req] = "eof" =>
            Encode(store[i].response_body) = Join(delivered[store[i].req])

\* C4 as amended: after a stream relayed to completion the stored
\* response_body is the lossy UTF-8 decoding of the concatenation of the
\* delivered chunks; it holds the delivered bytes exactly when they are
\* well-formed UTF-8.
C4_Amended ==
    \A i \in 1..Len(store) :
        LET r == store[i].req
        IN exit[r] = "eof" =>
              /\ store[i].response_body = Decode(Join(delivered[r]))
              /\ WellFormed(Join(delivered[r])) <=>
                    Encode(store[i].response_body) = Join(delivered[r])

\* A two-byte character split over two chunks was relayed and logged.
C4_Witness ==
    \E i \in 1..Len(store) :
        /\ exit[store[i].req] = "eof"
        /\ delivered[store[i].req] = <<<<97>>, <<195>>, <<169>>>>
        /\ store[i].response_body = <<97, 233>>

C7_Claim ==
    \A r \in Requests :
        Terminal(r) => clientOpen[r] # "open" /\ rOpen[r] # "open"

\* C8: for a stream that ended normally, the store write starts only after the
\* client has been sent the end of the body.
C8_Claim ==
    \A r \in Requests :
        exit[r] = "eof" /\ (pc[r] = "logging" \/ RecordsOf(r) # {}) =>
            clientEnd[r] = "complete"

\* What the client sees at the end of a run whose store write succeeds.
EndWhenLogged(r) ==
    IF exit[r] = "eof" THEN "complete"
    ELSE IF exit[r] = "error" THEN "aborted" ELSE "gone"

\* A run whose cleanup raised nowhere ends that way.
C9_LoggedRunEnd ==
    \A r \in Requests :
        pc[r] = "done" /\ fault[r] = "none" =>
            clientEnd[r] = EndWhenLogged(r) /\ clientStatus[r] = status[r]

\* C9: when the store write fails, the client observes the status, the chunks
\* and the stream termination of the run in which the write succeeds.
C9_Claim ==
    \A r \in Requests :
        pc[r] = "done" /\ fault[r] = "log" =>
            /\ clientStatus[r] = status[r]
            /\ IsPrefix(delivered[r], upstream[r])
            /\ clientEnd[r] = EndWhenLogged(r)

C11_FailedSend(r) ==
    pc[r] = "failed" =>
        /\ clientStatus[r] = INTERNAL_ERROR
        /\ clientStatus[r] >= HTTP_STATUS_BAD_REQUEST
        /\ clientEnd[r] = "complete"
        /\ status[r] = 0 /\ rOpen[r] = "none" /\ exit[r] = "none"
        /\ upstream[r] = <<>> /\ full_response[r] = <<>> /\ delivered[r] = <<>>
        /\ RecordsOf(r) = {}

C11_UpstreamFailure ==
    /\ [](\A r \in Requests : C11_FailedSend(r))
    /\ [][\A r \in Requests : pc[r] = "failed" => pc'[r] = "failed"]_vars

C11_Witness ==
    \E r \in Requests : pc[r] = "failed" /\ issued[r] /\ clientOpen[r] = "open"

(***************************************************************************)
(* C12: verify_api_key classifies every Authorization header, in this      *)
(* order: absent or empty -> 'Missing Authorization Header'; the text      *)
(* before the first space is not 'bearer' in any letter case -> 'Invalid   *)
(* Authorization Scheme'; the text after the first space is not exactly    *)
(* PROXY_API_KEY -> 'Invalid API Key'; otherwise the request is accepted.  *)
(* The three failures are answered 401 and differ in the message only.     *)
(***************************************************************************)
C12_BearerSpellings == {"Bearer", "bearer", "BEARER"}

C12_Absent(h) == h = None \/ h = <<>>

\* The header is one spelling of bearer, alone or followed by a space.
C12_BearerScheme(h) ==
    /\ Len(h) >= 1
    /\ h[1] \in C12_BearerSpellings
    /\ Len(h) >= 2 => h[2] = " "

\* The header is a spelling of bearer, one space, and the key.
C12_KeyMatches(h) == Len(h) >= 2 /\ SubSeq(h, 3, Len(h)) = PROXY_API_KEY

C12_Expected(h) ==
    IF C12_Absent(h) THEN "Missing Authorization Header"
    ELSE IF ~C12_BearerScheme(h) THEN "Invalid Authorization Scheme"
    ELSE IF ~C12_KeyMatches(h) THEN "Invalid API Key"
    ELSE "ok"

C12_Classification ==
    \A r \in Requests :
        pc[r] \notin {"absent", "start"} =>
            /\ auth[r] = C12_Expected(inbound[r].auth_header)
            /\ IF auth[r] = "ok"
               THEN pc[r] # "rejected" /\ clientStatus[r] # HTTP_401_UNAUTHORIZED
               ELSE /\ pc[r] = "rejected"
                    /\ clientStatus[r] = HTTP_401_UNAUTHORIZED
                    /\ auth[r] \in Rejections

\* A header is accepted whose scheme is spelled in capitals.
C12_Witness ==
    \E r \in Requests :
        /\ pc[r] = "handler" /\ auth[r] = "ok"
        /\ inbound[r].auth_header = <<"BEARER", " ", "key">>

(***************************************************************************)
(* C13: for every inbound body, the body bytes handed to the upstream      *)
(* request are identical to the bytes received from the client; the JSON   *)
(* parse performed for logging never changes them.                         *)
(***************************************************************************)
C13_BodyPassthrough ==
    \A r \in Requests :
        (clientOpen[r] # "none" \/ issued[r]) =>
            /\ req[r].content = inbound[r].body
            /\ req[r].method = METHOD

\* A JSON body that json.dumps(json.loads(.)) would not give back has been
\* sent upstream.
C13_Witness ==
    \E r \in Requests :
        /\ issued[r]
        /\ inbound[r].body = <<"[", " ", "]">>
        /\ request_json[r] = <<"[", "]">>
        /\ Dumps(request_json[r]) # inbound[r].body

(***************************************************************************)
(* C14: for every inbound body that is not well-formed JSON, bytes that    *)
(* are not decodable text included, the request is not aborted: it is      *)
(* forwarded upstream and its log record has request_body null; for every  *)
(* well-formed JSON body the record's request_body is the whole parsed     *)
(* value.                                                                  *)
(***************************************************************************)
C14_Decodable(b) == \A i \in 1..Len(b) : b[i] # "FF"

C14_WellFormed(b) == C14_Decodable(b) /\ IsJson(b)

C14_Claim ==
    \A r \in Requests :
        /\ pc[r] # "crashed"
        /\ pc[r] \in {"sending", "reading"} =>
              req[r].content = inbound[r].body
        /\ \A i \in RecordsOf(r) :
              store[i].request_body =
                  IF C14_WellFormed(inbound[r].body)
                  THEN SelectSeq(inbound[r].body, LAMBDA t : t # " ")
                  ELSE None

(***************************************************************************)
(* C15: for every configured upstream base URL (ending in '/v1' or not,    *)
(* with or without trailing slashes) and every accepted subpath, the       *)
(* upstream URL computed by proxy_openai never contains a duplicated       *)
(* '/v1/v1' segment.                                                       *)
(***************************************************************************)
C15_HasDupV1(u) ==
    \E i \in 1..(Len(u) - 3) :
        u[i] = "/" /\ u[i + 1] = "v1" /\ u[i + 2] = "/" /\ u[i + 3] = "v1"

C15_Built(r) == clientOpen[r] # "none"

C15_CountV1(u) == Cardinality({i \in 1..Len(u) : u[i] = "v1"})

C17_Configured == settings.UPSTREAM_API_KEY \notin {None, <<>>}

C17_Authorization(r) == {h \in req[r].headers : h[1] = "Authorization"}

C17_UpstreamAuthorization ==
    /\ \A r \in Requests :
          clientOpen[r] # "none" =>
              /\ <<"Content-Type", <<"application/json">>>> \in req[r].headers
              /\ IF C17_Configured
                 THEN C17_Authorization(r) =
                        {<<"Authorization",
                           <<"Bearer", " ">> \o settings.UPSTREAM_API_KEY>>}
                 ELSE C17_Authorization(r) = {}
              /\ \A h \in req[r].headers : h[2] # inbound[r].auth_header
    /\ \A r1, r2 \in Requests :
          (clientOpen[r1] # "none" /\ clientOpen[r2] # "none") =>
              req[r1].headers = req[r2].headers

\* Two requests with different client credentials have both been built, with
\* an upstream key configured.
C17_Witness ==
    \E r1, r2 \in Requests :
        /\ clientOpen[r1] # "none" /\ clientOpen[r2] # "none"
        /\ inbound[r1].auth_header # inbound[r2].auth_header
        /\ C17_Configured

(***************************************************************************)
(* C18: the status code and media type echoed to the client are fixed when *)
(* the upstream headers are received and do not change afterwards, while   *)
(* streaming, in the cleanup or once closed; the status_code stored in the *)
(* log record equals the status code echoed to the client and the status   *)
(* received from the upstream.                                             *)
(***************************************************************************)
C18_HeadersReceived(r) == status[r] # 0

C18_Echo(r) == <<clientStatus[r], media_type[r], status[r], content_type[r]>>

C18_EchoFixed ==
    /\ [](\A r \in Requests :
            /\ C18_HeadersReceived(r) =>
                  /\ clientStatus[r] = status[r]
                  /\ media_type[r] = content_type[r]
            /\ \A i \in RecordsOf(r) :
                  /\ C18_HeadersReceived(r)
                  /\ store[i].status_code = clientStatus[r]
                  /\ store[i].status_code = status[r])
    /\ [][\A r \in Requests :
            C18_HeadersReceived(r) => C18_Echo(r)' = C18_Echo(r)]_vars

\* A 500 has been echoed, streamed with a body, and logged.
C18_Witness ==
    \E r \in Requests :
        /\ pc[r] = "done" /\ exit[r] = "eof"
        /\ clientStatus[r] = 500 /\ media_type[r] = <<"text/event-stream">>
        /\ Len(delivered[r]) = 2
        /\ NumRecords(r) = 1 /\ RecordOf(r).status_code = 500

(***************************************************************************)
(* C19: at the moment a log record is written, on every exit path (normal  *)
(* completion, upstream error, client disconnect), its response_body is    *)
(* exactly the concatenation of the chunks that were relayed to the        *)
(* client, no more and no fewer.  (The text is compared with the decoding  *)
(* of the relayed bytes.)                                                  *)
(***************************************************************************)
C19_Original ==
    \A i \in 1..Len(store) :
        store[i].response_body = Decode(Join(delivered[store[i].req]))

\* C19 as amended: the response_body is the decoding of the accumulated
\* chunks; on normal completion and on an upstream error these are exactly
\* the chunks relayed to the client; after a client disconnect they are the
\* relayed chunks and at most one more, read and not delivered.
C19_Amended ==
    \A i \in 1..Len(store) :
        LET r == store[i].req
        IN /\ store[i].response_body = Decode(Join(full_response[r]))
           /\ IsPrefix(delivered[r], full_response[r])
           /\ Len(full_response[r]) <= Len(delivered[r]) + 1
           /\ exit[r] \in {"eof", "error"} => delivered[r] = full_response[r]
           /\ exit[r] \in {"eof", "error", "disconnect"}

\* A record has been written after a disconnect that left one chunk read
\* and not delivered.
C19_Witness ==
    \E i \in 1..Len(store) :
        LET r == store[i].req
        IN /\ exit[r] = "disconnect"
           /\ Len(delivered[r]) = 1 /\ Len(full_response[r]) = 2
           /\ store[i].response_body # Decode(Join(delivered[r]))

(***************************************************************************)
(* C20: for concurrent in-flight requests and any interleaving of their    *)
(* chunk arrivals, disconnects and errors, each request's log record and   *)
(* client stream contain only chunks from that request's own upstream      *)
(* response, in that upstream's order, and releasing one request's         *)
(* upstream connection never closes or affects another request's.          *)
(***************************************************************************)
\* Everything request q owns.
C20_Own(q) ==
    <<pc[q], rOpen[q], clientOpen[q], upstream[q], full_response[q],
      delivered[q], exit[q], fault[q], status[q], clientStatus[q],
      clientEnd[q], req[q], [i \in RecordsOf(q) |-> store[i]]>>

C20_Released(r) == rOpen'[r] # rOpen[r] \/ clientOpen'[r] # clientOpen[r]

C20_Isolation ==
    /\ [](\A r \in Requests :
            /\ IsPrefix(delivered[r], upstream[r])
            /\ \A k \in 1..Len(delivered[r]) : delivered[r][k] \in env.chunks[r]
            /\ \A i \in RecordsOf(r) :
                  \E n \in 0..Len(upstream[r]) :
                      store[i].response_body =
                          Decode(Join(SubSeq(upstream[r], 1, n))))
    /\ [][\A r, q \in Requests :
            (r # q /\ C20_Released(r)) => C20_Own(q)' = C20_Own(q)]_vars

\* Both requests have streamed and logged, the second one first.
C20_Witness ==
    /\ \A r \in Requests :
          pc[r] = "done" /\ NumRecords(r) = 1 /\ Len(delivered[r]) >= 1
    /\ store[1].req = "r2"
    /\ store[1].response_body # store[2].response_body

C22_TeeInvariant ==
    \A r \in Requests :
        /\ \A k \in 1..Len(delivered[r]) :
              k <= Len(full_response[r]) /\ delivered[r][k] = full_response[r][k]
        /\ \A k \in 1..Len(full_response[r]) :
              k <= Len(upstream[r]) /\ full_response[r][k] = upstream[r][k]
        /\ Len(full_response[r]) <= Len(delivered[r]) + 1
        /\ pc[r] = "yielded" => Len(full_response[r]) = Len(delivered[r]) + 1
        /\ pc[r] = "reading" => Len(full_response[r]) = Len(delivered[r])

\* A second, different chunk is in the buffer and not yet delivered.
C22_Witness ==
    \E r \in Requests :
        /\ pc[r] = "yielded"
        /\ Len(delivered[r]) = 1 /\ Len(full_response[r]) = 2
        /\ full_response[r][1] # full_response[r][2]

(***************************************************************************)
(* C23: in the relay's cleanup the upstream response is closed first, then *)
(* the HTTP client, and only then is the log record built and written:     *)
(* whenever a log write is in progress or done for a request, both of that *)
(* request's upstream resources are already released; and if closing       *)
(* either resource raises, no log record is written for that request.      *)
(***************************************************************************)
C23_LogStarted(r) == pc[r] \in {"logging", "logged"} \/ RecordsOf(r) # {}

C23_CloseRaised(r) == fault[r] \in {"r.aclose", "client.aclose"}

C23_CleanupOrder ==
    /\ [](\A r \in Requests :
            /\ C23_LogStarted(r) =>
                  rOpen[r] = "closed" /\ clientOpen[r] = "closed"
            /\ clientOpen[r] = "closed" => rOpen[r] = "closed"
            /\ C23_CloseRaised(r) => RecordsOf(r) = {} /\ pc[r] = "done")
    /\ [][\A r \in Requests :
            /\ (clientOpen[r] # "closed" /\ clientOpen'[r] = "closed") =>
                  rOpen[r] = "closed" /\ ~C23_LogStarted(r)
            /\ (rOpen[r] # "closed" /\ rOpen'[r] = "closed") =>
                  clientOpen[r] = "open" /\ ~C23_LogStarted(r)
            /\ C23_CloseRaised(r) => RecordsOf(r)' = {}]_vars

\* client.aclose() has raised after a body was streamed and the response
\* closed: the request is over without a record.
C23_Witness ==
    \E r \in Requests :
        /\ fault[r] = "client.aclose" /\ pc[r] = "done"
        /\ rOpen[r] = "closed" /\ clientOpen[r] = "open"
        /\ Len(full_response[r]) = 2 /\ RecordsOf(r) = {}

(***************************************************************************)
(* C24: in the admin dashboard, after any sequence of Previous, Next and   *)
(* Refresh actions starting from page 1, the page number held in           *)
(* page_state and passed to the log query is always >= 1 (Previous at page *)
(* 1 stays at page 1), so the query offset is never negative.              *)
(***************************************************************************)
C24_PageAtLeastOne ==
    /\ [](/\ page_state >= 1
          /\ query_page >= 1
          /\ query_offset >= 0
          /\ query_offset = (query_page - 1) * 10
          /\ \A k \in 1..Len(running) : running[k] >= 1)
    /\ [][(page_state = 1 /\ pending' = pending + 1) =>
            page_state' \in {1, 2}]_vars

\* Page 1 is held while the update chained to a click is still to start,
\* as after Previous at page 1.
C24_Witness ==
    /\ page_state = 1 /\ pending = 1 /\ running = <<>>
    /\ query_page = 1 /\ query_offset = 0

====
